---- MODULE Spec2Model ----
(***************************************************************************)
(* Model of the grade bot (src/main.py): the SQLite store (users,          *)
(* grade_counter, snapshots, counter_snapshots), the ingestion handler     *)
(* on_document, the undo branch of on_callback, the reminder handlers and  *)
(* the APScheduler wrapper.                                                *)
(*                                                                         *)
(* Conventions.  Text is a sequence of one-character strings.  A nullable  *)
(* value is a sequence of length 0 (NULL / None) or 1 (the value).  A      *)
(* Counter is a function from keys to counts.  A dict is the sequence of   *)
(* its (key, value) pairs in insertion order.  A float mean is the exact   *)
(* rational <<numerator, denominator>> in lowest terms.  Every `with       *)
(* db_lock:` block of the source, which ends in one CON.commit(), is one   *)
(* atomic step.                                                            *)
(***************************************************************************)
EXTENDS Integers, Sequences, FiniteSets, TLC

VARIABLES
    db,             \* the SQLite database file (CON)
    pc,             \* per worker thread: position in its handler
    loc,            \* per worker thread: the handler's local variables
    clock,          \* wall clock read by time.strftime, in minutes
    jobs,           \* the jobs held by the BackgroundScheduler
    scheduled_jobs, \* the module-level dict chat_id -> job id
    proc,           \* "running", or "crashed" when start-up raised
    sent,           \* the safe_send call made by the last step, Sent0 if none
    db_lock,        \* the thread inside a `with db_lock:` block, 0 when free
    hpre,           \* observer: db when the current handler began
    obs,            \* observer: the last completed handler
    streak,         \* observer: ids made by consecutive ingestions
    last_event      \* observer: the last reminder event and its schedule call

vars == <<db, pc, loc, clock, jobs, scheduled_jobs, proc, sent, db_lock,
          hpre, obs, streak, last_event>>

(***************************************************************************)
(* Bounds and program constants                                            *)
(***************************************************************************)
\* HISTORY_LIMIT is 60 in the source; the model scales it down.
HISTORY_LIMIT == 2
\* ids handed out by AUTOINCREMENT in the concurrent specification
MaxSeq == 2
\* ids handed out in the sequential specification
MaxSeqSeq == 3
\* ids handed out in the specification with restarts
MaxSeqCrash == 2
\* largest reading of the clock
MaxClock == 1
\* largest tries argument of safe_send
MaxTries == 3

Users == {1, 2}
Threads == {1, 2}
\* the worker that runs the handlers of the one-at-a-time specifications
SeqThread == 1
NULL == <<>>
Some(v) == <<v>>
SEP == <<"|", "|">>

(***************************************************************************)
(* Text helpers                                                            *)
(***************************************************************************)
Digits == <<"0", "1", "2", "3", "4", "5", "6", "7", "8", "9">>

RECURSIVE NatStr(_)
NatStr(n) ==
    IF n < 10 THEN <<Digits[n + 1]>>
    ELSE NatStr(n \div 10) \o <<Digits[(n % 10) + 1]>>

\* str(grade) inside the f-string of make_counter
IntStr(n) == IF n < 0 THEN <<"-">> \o NatStr(-n) ELSE NatStr(n)

\* str.strip() of the blanks
RECURSIVE Strip(_)
Strip(s) ==
    IF s = <<>> THEN s
    ELSE IF s[1] = " " THEN Strip(Tail(s))
    ELSE IF s[Len(s)] = " " THEN Strip(SubSeq(s, 1, Len(s) - 1))
    ELSE s

DigitValue(c) == (CHOOSE i \in 1..10 : Digits[i] = c) - 1
IsDigit(c) == \E i \in 1..10 : Digits[i] = c

RECURSIVE DigitsValue(_)
DigitsValue(s) ==
    IF s = <<>> THEN 0
    ELSE 10 * DigitsValue(SubSeq(s, 1, Len(s) - 1)) + DigitValue(s[Len(s)])

\* int(s): NULL stands for ValueError
ParseInt(s) ==
    LET t == Strip(s)
        signed == t # <<>> /\ t[1] \in {"+", "-"}
        body == IF signed THEN Tail(t) ELSE t
    IN  IF body = <<>> \/ \E i \in 1..Len(body) : ~IsDigit(body[i])
        THEN NULL
        ELSE IF signed /\ t[1] = "-" THEN Some(-DigitsValue(body))
        ELSE Some(DigitsValue(body))

(***************************************************************************)
(* Rationals standing for the float means                                  *)
(***************************************************************************)
RECURSIVE GCD(_, _)
GCD(a, b) == IF b = 0 THEN a ELSE GCD(b, a % b)

Abs(n) == IF n < 0 THEN -n ELSE n

Reduce(n, d) ==
    LET g == GCD(Abs(n), d) IN <<n \div g, d \div g>>

FracAdd(a, b) == Reduce(a[1] * b[2] + b[1] * a[2], a[2] * b[2])

FracSub(a, b) == FracAdd(a, <<-b[1], b[2]>>)

RECURSIVE SumGrades(_)
SumGrades(its) ==
    IF its = <<>> THEN 0 ELSE its[1][2] + SumGrades(Tail(its))

RECURSIVE SumFracs(_)
SumFracs(avs) ==
    IF avs = <<>> THEN <<0, 1>> ELSE FracAdd(avs[1][2], SumFracs(Tail(avs)))

(***************************************************************************)
(* analyze_items, make_counter                                             *)
(***************************************************************************)
\* keys of by_subject in insertion order (dict.setdefault)
RECURSIVE SubjectOrder(_)
SubjectOrder(items) ==
    IF items = <<>> THEN <<>>
    ELSE LET rest == SubjectOrder(SubSeq(items, 1, Len(items) - 1))
             s == items[Len(items)][1]
         IN  IF \E i \in 1..Len(rest) : rest[i] = s THEN rest
             ELSE Append(rest, s)

GradesOf(items, s) == SelectSeq(items, LAMBDA it : it[1] = s)

\* None (NULL) for no items, else Some([overall, averages])
analyze_items(items) ==
    IF items = <<>> THEN NULL
    ELSE LET order == SubjectOrder(items)
             averages ==
                 [i \in 1..Len(order) |->
                     <<order[i],
                       Reduce(SumGrades(GradesOf(items, order[i])),
                              Len(GradesOf(items, order[i])))>>]
             total == SumFracs(averages)
         IN  Some([overall  |-> Reduce(total[1], total[2] * Len(averages)),
                   averages |-> averages])

CounterKey(subj, grade) == subj \o SEP \o IntStr(grade)

EmptyCounter == <<>>

CounterInc(c, k) ==
    IF k \in DOMAIN c THEN [c EXCEPT ![k] = @ + 1] ELSE c @@ (k :> 1)

RECURSIVE make_counter(_)
make_counter(items) ==
    IF items = <<>> THEN EmptyCounter
    ELSE CounterInc(make_counter(SubSeq(items, 1, Len(items) - 1)),
                    CounterKey(items[Len(items)][1], items[Len(items)][2]))

(***************************************************************************)
(* parse_counter_key, diff_new_grades                                      *)
(***************************************************************************)
\* index of the first occurrence of pat in s, 0 when there is none
FindFirst(s, pat) ==
    LET hits == {i \in 1..(Len(s) - Len(pat) + 1) :
                    SubSeq(s, i, i + Len(pat) - 1) = pat}
    IN  IF hits = {} THEN 0 ELSE CHOOSE i \in hits : \A j \in hits : i <= j

\* subj, grade = key.split(SEP, 1); return subj, int(grade).
\* NULL stands for the ValueError of the unpacking or of int()
parse_counter_key(key) ==
    LET i == FindFirst(key, SEP) IN
    IF i = 0 THEN NULL
    ELSE LET grade == ParseInt(SubSeq(key, i + Len(SEP), Len(key))) IN
         IF grade = NULL THEN NULL
         ELSE Some(<<SubSeq(key, 1, i - 1), grade[1]>>)

\* code points of the characters of the subjects
Ord(c) ==
    CASE c = " " -> 32 [] c = "-" -> 45 [] c = "A" -> 65 [] c = "B" -> 66
      [] c = "M" -> 77 [] c = "|" -> 124

\* a < b on str
RECURSIVE StrLess(_, _)
StrLess(a, b) ==
    IF b = <<>> THEN FALSE
    ELSE IF a = <<>> THEN TRUE
    ELSE IF a[1] # b[1] THEN Ord(a[1]) < Ord(b[1])
    ELSE StrLess(Tail(a), Tail(b))

\* (x[0], x[1]) < (y[0], y[1])
EntryLess(x, y) == StrLess(x[1], y[1]) \/ (x[1] = y[1] /\ x[2] < y[2])

\* added.sort(key=lambda x: (x[0], x[1])); the entries of one call have
\* distinct (subject, grade), so the order they were appended in is lost
\* by the sort
RECURSIVE SortEntries(_)
SortEntries(S) ==
    IF S = {} THEN <<>>
    ELSE LET m == CHOOSE x \in S : \A y \in S : ~EntryLess(y, x)
         IN  <<m>> \o SortEntries(S \ {m})

\* NULL when parse_counter_key raises, else Some(added)
diff_new_grades(old, new) ==
    LET old_count(k) == IF k \in DOMAIN old THEN old[k] ELSE 0
        grown == {k \in DOMAIN new : new[k] > old_count(k)}
    IN  IF \E k \in grown : parse_counter_key(k) = NULL THEN NULL
        ELSE Some(SortEntries(
                 {<<parse_counter_key(k)[1][1], parse_counter_key(k)[1][2],
                    new[k] - old_count(k)>> : k \in grown}))

\* json.dumps / json.loads of the averages dict
json_dumps(averages) == [json |-> averages]
json_loads(js) == js.json

(***************************************************************************)
(* The store: one operator per locked block                                *)
(***************************************************************************)
DefaultRow ==
    [reminder_enabled   |-> 0,
     reminder_time      |-> NULL,
     awaiting_time      |-> 0,
     last_overall       |-> NULL,
     last_averages_json |-> NULL]

\* the database after init_db on a fresh file
InitDb ==
    [users             |-> <<>>,
     grade_counter     |-> {},
     snapshots         |-> {},
     counter_snapshots |-> {},
     seq               |-> 0]

ensure_user(d, chat_id) ==
    IF chat_id \in DOMAIN d.users THEN d
    ELSE [d EXCEPT !.users = @ @@ (chat_id :> DefaultRow)]

\* the row get_user_row returns (the result, after its ensure_user)
get_user_row(d, chat_id) == ensure_user(d, chat_id).users[chat_id]

\* fields is a record holding the keyword arguments
set_user_fields(d, chat_id, fields) ==
    LET e == ensure_user(d, chat_id)
        row == e.users[chat_id]
    IN  [e EXCEPT !.users[chat_id] =
            [f \in DOMAIN row |->
                IF f \in DOMAIN fields THEN fields[f] ELSE row[f]]]

CounterRows(d, chat_id) == {r \in d.grade_counter : r[1] = chat_id}

RowsToCounter(rows) ==
    [k \in {r[2] : r \in rows} |-> (CHOOSE r \in rows : r[2] = k)[3]]

get_counter(d, chat_id) == RowsToCounter(CounterRows(d, chat_id))

set_counter(d, chat_id, c) ==
    LET e == ensure_user(d, chat_id)
    IN  [e EXCEPT !.grade_counter =
            (@ \ CounterRows(e, chat_id))
            \cup {<<chat_id, k, c[k]>> : k \in DOMAIN c}]

SnapshotIds(d, chat_id) == {s.id : s \in {x \in d.snapshots : x.chat_id = chat_id}}

\* DeleteSnapshots with foreign_keys left off: the counter rows stay
DeleteSnapshots_no_cascade(d, ids) ==
    [d EXCEPT !.snapshots = {s \in @ : s.id \notin ids}]

\* ON DELETE CASCADE from snapshots to counter_snapshots (foreign_keys = ON)
DeleteSnapshots(d, ids) ==
    [d EXCEPT !.snapshots = {s \in @ : s.id \notin ids},
              !.counter_snapshots = {r \in @ : r[1] \notin ids}]

\* BeyondLimit with LIMIT one too high
BeyondLimit_one_more(d, chat_id) ==
    LET S == SnapshotIds(d, chat_id)
    IN  {i \in S : Cardinality({j \in S : j > i}) > HISTORY_LIMIT}

\* ids outside the HISTORY_LIMIT highest of the user
BeyondLimit(d, chat_id) ==
    LET S == SnapshotIds(d, chat_id)
    IN  {i \in S : Cardinality({j \in S : j > i}) >= HISTORY_LIMIT}

\* the database after add_snapshot; the id returned is its seq
add_snapshot(d, chat_id, ts, overall, averages) ==
    LET e == ensure_user(d, chat_id)
        snapshot_id == e.seq + 1
        ins == [e EXCEPT !.snapshots = @ \cup
                   {[id |-> snapshot_id, chat_id |-> chat_id, ts |-> ts,
                     overall |-> overall,
                     averages_json |-> json_dumps(averages)]},
                         !.seq = snapshot_id]
    IN  DeleteSnapshots(ins, BeyondLimit(ins, chat_id))

\* save_counter_snapshot_fails with foreign_keys left off: nothing is
\* rejected
save_counter_snapshot_fails_never(d, snapshot_id, c) == FALSE

\* the foreign key snapshot_id -> snapshots(id) rejects rows of a missing one
save_counter_snapshot_fails(d, snapshot_id, c) ==
    /\ DOMAIN c # {}
    /\ snapshot_id \notin {s.id : s \in d.snapshots}

save_counter_snapshot(d, snapshot_id, c) ==
    IF save_counter_snapshot_fails(d, snapshot_id, c) THEN d
    ELSE [d EXCEPT !.counter_snapshots =
            {r \in @ : ~(r[1] = snapshot_id /\ r[2] \in DOMAIN c)}
            \cup {<<snapshot_id, k, c[k]>> : k \in DOMAIN c}]

\* get_latest_snapshot_id without its WHERE chat_id=? clause
get_latest_snapshot_id_any(d, chat_id) ==
    LET S == {s.id : s \in d.snapshots}
    IN  IF S = {} THEN NULL
        ELSE Some(CHOOSE i \in S : \A j \in S : j <= i)

get_latest_snapshot_id(d, chat_id) ==
    LET S == SnapshotIds(d, chat_id)
    IN  IF S = {} THEN NULL
        ELSE Some(CHOOSE i \in S : \A j \in S : j <= i)

get_snapshot_data(d, snapshot_id) ==
    LET rows == {s \in d.snapshots : s.id = snapshot_id}
    IN  IF rows = {} THEN NULL
        ELSE LET row == CHOOSE s \in rows : TRUE
             IN  Some([ts |-> row.ts, overall |-> row.overall,
                       averages |-> json_loads(row.averages_json)])

\* the dict get_history builds from one row
HistoryItem(row) ==
    [ts |-> row.ts, overall |-> row.overall,
     averages |-> json_loads(row.averages_json)]

\* the rows of SELECT ... WHERE chat_id=? ORDER BY id DESC LIMIT ?, as ids;
\* SQLite reads a negative LIMIT as no limit
HistoryRows(d, chat_id, limit) ==
    LET S == SnapshotIds(d, chat_id)
        top == {i \in S : limit < 0 \/ Cardinality({j \in S : j > i}) < limit}
    IN  [k \in 1..Cardinality(top) |->
            CHOOSE i \in top : Cardinality({j \in top : j > i}) = k - 1]

SnapshotRow(d, id) == CHOOSE s \in d.snapshots : s.id = id

\* get_history without reversed(): newest first
get_history_newest_first(d, chat_id, limit) ==
    LET rows == HistoryRows(d, chat_id, limit)
    IN  [k \in 1..Len(rows) |-> HistoryItem(SnapshotRow(d, rows[k]))]

\* the list get_history returns; its ensure_user is the store effect
get_history(d, chat_id, limit) ==
    LET rows == HistoryRows(d, chat_id, limit)
    IN  [k \in 1..Len(rows) |->
            HistoryItem(SnapshotRow(d, rows[Len(rows) + 1 - k]))]

\* get_counter_by_snapshot that finds no row
get_counter_by_snapshot_none(d, snapshot_id) == EmptyCounter

get_counter_by_snapshot(d, snapshot_id) ==
    LET rows == {r \in d.counter_snapshots : r[1] = snapshot_id}
    IN  RowsToCounter(rows)

(***************************************************************************)
(* Inputs: the uploaded document                                           *)
(***************************************************************************)
SubjM == <<"M">>
SubjA == <<"A">>
\* what parse_excel_grades extracts from the workbook
FileA == << <<SubjM, 5>>, <<SubjM, 5>>, <<SubjA, 4>> >>
FileB == << <<SubjM, 5>> >>
FileNone == <<>>
Files == {FileA, FileB, FileNone}
\* a workbook with a subject that ends in the character of the separator
SubjBar == <<"A", "|">>
FileBar == << <<SubjM, 5>>, <<SubjBar, 5>> >>

NameXlsx == <<"g", ".", "x", "l", "s", "x">>
NameUpper == <<"g", ".", "X", "L", "S", "X">>
NameCsv == <<"g", ".", "c", "s", "v">>
FileNames == {NameXlsx, NameUpper, NameCsv}

LowerChar(c) ==
    CASE c = "X" -> "x" [] c = "L" -> "l" [] c = "S" -> "s" [] OTHER -> c

Lower(s) == [i \in 1..Len(s) |-> LowerChar(s[i])]

EndsWith(s, suffix) ==
    /\ Len(s) >= Len(suffix)
    /\ SubSeq(s, Len(s) - Len(suffix) + 1, Len(s)) = suffix

DotXlsx == <<".", "x", "l", "s", "x">>

Documents ==
    [file_name : FileNames, download_ok : BOOLEAN, items : Files]

\* the document passes every check of on_document before the store writes
Ingestible(m) ==
    /\ EndsWith(Lower(m.file_name), DotXlsx)
    /\ m.download_ok
    /\ analyze_items(m.items) # NULL

IngestibleDocuments == {m \in Documents : Ingestible(m)}

(***************************************************************************)
(* safe_send and the lock                                                  *)
(***************************************************************************)
\* what one call of bot.send_message does: it returns, or raises one of
\* the exceptions of the first except clause, or raises another Exception
Outcomes == {"ok", "RequestException", "Exception"}

\* the loop of safe_send without its return: a success is followed by
\* further attempts
RECURSIVE safe_send_from_no_return(_, _, _, _)
safe_send_from_no_return(i, tries, net, r) ==
    IF i >= tries THEN r
    ELSE safe_send_from_no_return(i + 1, tries, net,
            [r EXCEPT !.attempts = @ + 1,
                      !.delivered = @ \/ net[i + 1] = "ok"])

\* safe_send(chat_id, text, tries=tries), net[k] being the outcome of the
\* k-th call of bot.send_message.  attempts counts the calls made, slept
\* lists the time.sleep arguments, delivered is FALSE when None is returned.
RECURSIVE safe_send_from(_, _, _, _)
safe_send_from(i, tries, net, r) ==
    IF i >= tries THEN r
    ELSE LET tried == [r EXCEPT !.attempts = @ + 1]
         IN  IF net[i + 1] = "ok"
             THEN [tried EXCEPT !.delivered = TRUE]
             ELSE safe_send_from(i + 1, tries, net,
                     [tried EXCEPT !.slept =
                         Append(@, IF net[i + 1] = "RequestException"
                                   THEN 2 + i * 2 ELSE 1)])

\* safe_send that gives up before its first attempt
safe_send_no_attempt(chat_id, text, tries, net) ==
    [chat_id |-> chat_id, text |-> text, tries |-> tries,
     attempts |-> 0, delivered |-> FALSE, slept |-> <<>>]

safe_send(chat_id, text, tries, net) ==
    safe_send_from(0, tries, net,
        [chat_id |-> chat_id, text |-> text, tries |-> tries,
         attempts |-> 0, delivered |-> FALSE, slept |-> <<>>])

\* no safe_send call
Sent0 ==
    [chat_id |-> 0, text |-> "", tries |-> 0,
     attempts |-> 0, delivered |-> FALSE, slept |-> <<>>]

\* tries: int = 3
DefaultTries == 3

\* the network as the handlers meet it: up, or down for every attempt
HandlerNets ==
    {[k \in 1..DefaultTries |-> "ok"],
     [k \in 1..DefaultTries |-> "RequestException"]}

\* the step calls safe_send(chat_id, text)
Send(chat_id, text) ==
    \E net \in HandlerNets :
        sent' = safe_send(chat_id, text, DefaultTries, net)

\* the step calls safe_send not at all
Silent == sent' = Sent0

\* worker t runs one `with db_lock:` block from acquire to release
LockStep(t) == db_lock \in {0, t} /\ db_lock' = 0

(***************************************************************************)
(* Worker threads: on_document and the undo branch of on_callback, one     *)
(* step per locked block                                                   *)
(***************************************************************************)
Loc0 ==
    [handler      |-> "",
     chat_id      |-> 0,
     items        |-> <<>>,
     rep          |-> NULL,
     new_counter  |-> EmptyCounter,
     added        |-> <<>>,
     snapshot_id  |-> 0,
     last_id      |-> NULL,
     prev_id      |-> NULL,
     snap         |-> NULL,
     prev_counter |-> EmptyCounter]

\* ingestions that have started and not yet taken their snapshot id
Pending ==
    Cardinality({t \in Threads :
        pc[t] \in {"get_counter", "set_counter", "set_user_fields",
                   "add_snapshot"}})

Finish(t) ==
    /\ pc' = [pc EXCEPT ![t] = "idle"]
    /\ loc' = [loc EXCEPT ![t] = Loc0]

Goto(t, label, l) ==
    /\ pc' = [pc EXCEPT ![t] = label]
    /\ loc' = [loc EXCEPT ![t] = l]

\* the texts the handlers pass to safe_send, named by what they say
TxtNeedXlsx == "need_xlsx"
TxtNoDownload == "download_failed"
TxtNoGrades == "no_grades"
TxtProcessed == "processed"
TxtUndoEmpty == "undo_empty"
TxtUndoOk == "undo_ok"

\* on_document up to the first read of the counter
DocBegin(t, chat_id, m, maxSeq) ==
    /\ proc = "running"
    /\ pc[t] = "idle"
    /\ Ingestible(m) => db.seq + Pending < maxSeq
    /\ IF ~EndsWith(Lower(m.file_name), DotXlsx)
       THEN /\ Send(chat_id, TxtNeedXlsx)
            /\ UNCHANGED <<db, pc, loc>>
       ELSE /\ db' = ensure_user(db, chat_id)
            /\ IF ~m.download_ok
               THEN Send(chat_id, TxtNoDownload) /\ UNCHANGED <<pc, loc>>
               ELSE IF analyze_items(m.items) = NULL
               THEN Send(chat_id, TxtNoGrades) /\ UNCHANGED <<pc, loc>>
               ELSE /\ Silent
                    /\ Goto(t, "get_counter",
                            [Loc0 EXCEPT !.handler = "doc",
                                         !.chat_id = chat_id,
                                         !.items = m.items,
                                         !.rep = analyze_items(m.items)])
    /\ LockStep(t)
    /\ UNCHANGED <<clock, jobs, scheduled_jobs, proc>>

\* old_counter = get_counter(...); new_counter = make_counter(items);
\* added = diff_new_grades(old_counter, new_counter).  When the diff raises
\* the handler ends here: the finally clause removes the file, nothing is
\* sent.
DiffOf(d, chat_id, items) ==
    diff_new_grades(get_counter(d, chat_id), make_counter(items))

GetCounter(t) ==
    LET added == DiffOf(db, loc[t].chat_id, loc[t].items) IN
    /\ pc[t] = "get_counter"
    /\ db' = ensure_user(db, loc[t].chat_id)
    /\ IF added = NULL
       THEN Finish(t)
       ELSE Goto(t, "set_counter",
                 [loc[t] EXCEPT !.new_counter = make_counter(loc[t].items),
                                !.added = added[1]])
    /\ Silent
    /\ LockStep(t)
    /\ UNCHANGED <<clock, jobs, scheduled_jobs, proc>>

SetCounter(t) ==
    /\ pc[t] = "set_counter"
    /\ db' = set_counter(db, loc[t].chat_id, loc[t].new_counter)
    /\ Goto(t, "set_user_fields", loc[t])
    /\ Silent
    /\ LockStep(t)
    /\ UNCHANGED <<clock, jobs, scheduled_jobs, proc>>

SetUserFields(t) ==
    /\ pc[t] = "set_user_fields"
    /\ db' = set_user_fields(db, loc[t].chat_id,
                [last_overall |-> Some(loc[t].rep[1].overall),
                 last_averages_json |->
                     Some(json_dumps(loc[t].rep[1].averages))])
    /\ Goto(t, "add_snapshot", loc[t])
    /\ Silent
    /\ LockStep(t)
    /\ UNCHANGED <<clock, jobs, scheduled_jobs, proc>>

\* stamp = time.strftime(...); snapshot_id = add_snapshot(...), the wall
\* clock being at one of the minutes of stamps
AddSnapshotAt(t, stamps) ==
    /\ pc[t] = "add_snapshot"
    /\ \E stamp \in stamps :
          /\ clock' = stamp
          /\ db' = add_snapshot(db, loc[t].chat_id, stamp,
                                loc[t].rep[1].overall, loc[t].rep[1].averages)
    /\ Goto(t, "save_counter_snapshot",
            [loc[t] EXCEPT !.snapshot_id = db'.seq])
    /\ Silent
    /\ LockStep(t)
    /\ UNCHANGED <<jobs, scheduled_jobs, proc>>

AddSnapshot(t) == AddSnapshotAt(t, clock..MaxClock)

\* save_counter_snapshot, then the reply; an IntegrityError ends the handler
SaveCounterSnapshot(t) ==
    /\ pc[t] = "save_counter_snapshot"
    /\ db' = save_counter_snapshot(db, loc[t].snapshot_id, loc[t].new_counter)
    /\ Finish(t)
    /\ IF save_counter_snapshot_fails(db, loc[t].snapshot_id,
                                      loc[t].new_counter)
       THEN Silent
       ELSE Send(loc[t].chat_id, TxtProcessed)
    /\ LockStep(t)
    /\ UNCHANGED <<clock, jobs, scheduled_jobs, proc>>

\* on_callback: ensure_user, get_user_row, dispatch to the undo branch
UndoBegin(t, chat_id) ==
    /\ proc = "running"
    /\ pc[t] = "idle"
    /\ db' = ensure_user(db, chat_id)
    /\ Goto(t, "undo_latest",
            [Loc0 EXCEPT !.handler = "undo", !.chat_id = chat_id])
    /\ Silent
    /\ LockStep(t)
    /\ UNCHANGED <<clock, jobs, scheduled_jobs, proc>>

UndoLatest(t) ==
    /\ pc[t] = "undo_latest"
    /\ LET last_id == get_latest_snapshot_id(db, loc[t].chat_id)
       IN  IF last_id = NULL
           THEN Finish(t)
           ELSE Goto(t, "undo_delete", [loc[t] EXCEPT !.last_id = last_id])
    /\ Silent
    /\ LockStep(t)
    /\ UNCHANGED <<db, clock, jobs, scheduled_jobs, proc>>

UndoDelete(t) ==
    /\ pc[t] = "undo_delete"
    /\ db' = DeleteSnapshots(db, {loc[t].last_id[1]})
    /\ Goto(t, "undo_prev", loc[t])
    /\ Silent
    /\ LockStep(t)
    /\ UNCHANGED <<clock, jobs, scheduled_jobs, proc>>

UndoPrev(t) ==
    /\ pc[t] = "undo_prev"
    /\ LET prev_id == get_latest_snapshot_id(db, loc[t].chat_id)
       IN  IF prev_id = NULL
           THEN Goto(t, "undo_clear_fields", loc[t])
           ELSE Goto(t, "undo_snap", [loc[t] EXCEPT !.prev_id = prev_id])
    /\ Silent
    /\ LockStep(t)
    /\ UNCHANGED <<db, clock, jobs, scheduled_jobs, proc>>

UndoClearFields(t) ==
    /\ pc[t] = "undo_clear_fields"
    /\ db' = set_user_fields(db, loc[t].chat_id,
                [last_overall |-> NULL, last_averages_json |-> NULL])
    /\ Goto(t, "undo_clear_counter", loc[t])
    /\ Silent
    /\ LockStep(t)
    /\ UNCHANGED <<clock, jobs, scheduled_jobs, proc>>

UndoClearCounter(t) ==
    /\ pc[t] = "undo_clear_counter"
    /\ db' = set_counter(db, loc[t].chat_id, EmptyCounter)
    /\ Finish(t)
    /\ Send(loc[t].chat_id, TxtUndoEmpty)
    /\ LockStep(t)
    /\ UNCHANGED <<clock, jobs, scheduled_jobs, proc>>

UndoSnap(t) ==
    /\ pc[t] = "undo_snap"
    /\ Goto(t, "undo_counter",
            [loc[t] EXCEPT !.snap = get_snapshot_data(db, loc[t].prev_id[1])])
    /\ Silent
    /\ LockStep(t)
    /\ UNCHANGED <<db, clock, jobs, scheduled_jobs, proc>>

UndoCounter(t) ==
    /\ pc[t] = "undo_counter"
    /\ IF loc[t].snap = NULL
       THEN Finish(t)
       ELSE Goto(t, "undo_set_fields",
                 [loc[t] EXCEPT !.prev_counter =
                     get_counter_by_snapshot(db, loc[t].prev_id[1])])
    /\ Silent
    /\ LockStep(t)
    /\ UNCHANGED <<db, clock, jobs, scheduled_jobs, proc>>

UndoSetFields(t) ==
    /\ pc[t] = "undo_set_fields"
    /\ db' = set_user_fields(db, loc[t].chat_id,
                [last_overall |-> Some(loc[t].snap[1].overall),
                 last_averages_json |->
                     Some(json_dumps(loc[t].snap[1].averages))])
    /\ Goto(t, "undo_set_counter", loc[t])
    /\ Silent
    /\ LockStep(t)
    /\ UNCHANGED <<clock, jobs, scheduled_jobs, proc>>

UndoSetCounter(t) ==
    /\ pc[t] = "undo_set_counter"
    /\ db' = set_counter(db, loc[t].chat_id, loc[t].prev_counter)
    /\ Finish(t)
    /\ Send(loc[t].chat_id, TxtUndoOk)
    /\ LockStep(t)
    /\ UNCHANGED <<clock, jobs, scheduled_jobs, proc>>

(***************************************************************************)
(* The lock seen from inside, and the admin command export_db              *)
(***************************************************************************)
\* worker t enters the `with db_lock:` block of the store call it is at
Acquire(t) ==
    /\ pc[t] \notin {"idle", "export_db_read"}
    /\ db_lock = 0
    /\ db_lock' = t
    /\ Silent
    /\ UNCHANGED <<db, pc, loc, clock, jobs, scheduled_jobs, proc>>

\* the chat the deployment names in the environment variable ADMIN_CHAT_ID
ADMIN_CHAT_ID == CHOOSE u \in Users : \A v \in Users : u <= v

TxtAdminOnly == "admin_only"

\* export_db up to open(DB_PATH, "rb")
ExportDbBegin(t, chat_id) ==
    /\ proc = "running"
    /\ pc[t] = "idle"
    /\ IF chat_id # ADMIN_CHAT_ID
       THEN Send(chat_id, TxtAdminOnly) /\ UNCHANGED <<pc, loc>>
       ELSE /\ Silent
            /\ Goto(t, "export_db_read",
                    [Loc0 EXCEPT !.handler = "export_db",
                                 !.chat_id = chat_id])
    /\ UNCHANGED <<db, clock, jobs, scheduled_jobs, proc, db_lock>>

\* bot.send_document reads the open database file to its end and uploads it
ExportDbRead(t) ==
    /\ pc[t] = "export_db_read"
    /\ Finish(t)
    /\ Silent
    /\ UNCHANGED <<db, clock, jobs, scheduled_jobs, proc, db_lock>>

(***************************************************************************)
(* Text of times and callback tokens                                       *)
(***************************************************************************)
StartsWith(s, prefix) ==
    /\ Len(s) >= Len(prefix)
    /\ SubSeq(s, 1, Len(prefix)) = prefix

\* s.replace(pat, "")
RECURSIVE RemoveAll(_, _)
RemoveAll(s, pat) ==
    IF s = <<>> THEN <<>>
    ELSE IF StartsWith(s, pat)
         THEN RemoveAll(SubSeq(s, Len(pat) + 1, Len(s)), pat)
         ELSE <<s[1]>> \o RemoveAll(Tail(s), pat)

\* s.split(c) for a one-character separator
RECURSIVE Split(_, _)
Split(s, c) ==
    IF \A i \in 1..Len(s) : s[i] # c THEN <<s>>
    ELSE LET i == CHOOSE k \in 1..Len(s) :
                     s[k] = c /\ \A j \in 1..(k - 1) : s[j] # c
         IN  <<SubSeq(s, 1, i - 1)>> \o Split(SubSeq(s, i + 1, Len(s)), c)

\* s.strip() for blanks
T0800 == <<"0", "8", ":", "0", "0">>
T1200 == <<"1", "2", ":", "0", "0">>
T1800 == <<"1", "8", ":", "0", "0">>
T2100 == <<"2", "1", ":", "0", "0">>
TimePrefix == <<"t", "i", "m", "e", "_">>
Custom == <<"c", "u", "s", "t", "o", "m">>
CbRemToggle == <<"r", "e", "m", "_", "t", "o", "g", "g", "l", "e">>
CbTimeCustom == TimePrefix \o Custom
CbBack == <<"b", "a", "c", "k">>

CbSummary == <<"s", "u", "m", "m", "a", "r", "y">>
CbDetails == <<"d", "e", "t", "a", "i", "l", "s">>
CbRefresh == <<"r", "e", "f", "r", "e", "s", "h">>
CbTrend == <<"t", "r", "e", "n", "d">>
CbUndo == <<"u", "n", "d", "o">>
CbReminders == <<"r", "e", "m", "i", "n", "d", "e", "r", "s">>
SubjPrefix == <<"s", "u", "b", "j", ":">>
SubjPagePrefix == <<"s", "u", "b", "j", "p", "a", "g", "e", ":">>

\* callback_data of every button of reminders_kb
RemindersKb ==
    {CbRemToggle, TimePrefix \o T0800, TimePrefix \o T1200,
     TimePrefix \o T1800, TimePrefix \o T2100, CbTimeCustom, CbBack}

(***************************************************************************)
(* The scheduler wrapper                                                   *)
(***************************************************************************)
JobId(chat_id) == <<"rem", chat_id>>

\* scheduler.remove_job inside try/except: a missing job is ignored
remove_job(js, job_id) == {j \in js : j.id # job_id}

\* scheduler.add_job(..., id=job_id, replace_existing=True)
add_job(js, job_id, hour, minute) ==
    {j \in js : j.id # job_id}
    \cup {[id |-> job_id, hour |-> hour, minute |-> minute]}

\* hour, minute = hhmm.split(":"); CronTrigger(hour=int(hour), minute=int(minute))
\* NULL stands for the ValueError of the unpacking, of int() or of CronTrigger
CronFields(hhmm) ==
    LET parts == Split(hhmm, ":")
    IN  IF Len(parts) # 2 THEN NULL
        ELSE LET hour == ParseInt(parts[1])
                 minute == ParseInt(parts[2])
             IN  IF hour = NULL \/ minute = NULL THEN NULL
                 ELSE IF hour[1] \notin 0..23 \/ minute[1] \notin 0..59
                      THEN NULL
                      ELSE Some(<<hour[1], minute[1]>>)

\* S is [jobs, scheduled_jobs, raised]; the result is S after the call
schedule_user_reminder(S, chat_id, hhmm) ==
    LET removed ==
            IF chat_id \in DOMAIN S.scheduled_jobs
            THEN remove_job(S.jobs, S.scheduled_jobs[chat_id])
            ELSE S.jobs
        fields == CronFields(hhmm)
    IN  IF fields = NULL
        THEN [S EXCEPT !.jobs = removed, !.raised = TRUE]
        ELSE [S EXCEPT
                !.jobs = add_job(removed, JobId(chat_id),
                                 fields[1][1], fields[1][2]),
                !.scheduled_jobs =
                    [c \in (DOMAIN @) \cup {chat_id} |->
                        IF c = chat_id THEN JobId(chat_id) ELSE @[c]]]

unschedule_user_reminder(S, chat_id) ==
    IF chat_id \in DOMAIN S.scheduled_jobs
    THEN [S EXCEPT
            !.jobs = remove_job(@, S.scheduled_jobs[chat_id]),
            !.scheduled_jobs = [c \in (DOMAIN @) \ {chat_id} |-> @[c]]]
    ELSE S

\* rows of the SELECT of restore_jobs_from_db, by chat_id
RECURSIVE SortedSeq(_)
SortedSeq(S) ==
    IF S = {} THEN <<>>
    ELSE LET m == CHOOSE x \in S : \A y \in S : x <= y
         IN  <<m>> \o SortedSeq(S \ {m})

RestoreRows(d) ==
    SortedSeq({c \in DOMAIN d.users :
        d.users[c].reminder_enabled = 1 /\ d.users[c].reminder_time # NULL})

RECURSIVE RestoreFrom(_, _, _)
RestoreFrom(S, d, rows) ==
    IF rows = <<>> \/ S.raised THEN S
    ELSE RestoreFrom(
            schedule_user_reminder(S, rows[1], d.users[rows[1]].reminder_time[1]),
            d, Tail(rows))

restore_jobs_from_db(S, d) == RestoreFrom(S, d, RestoreRows(d))

\* the scheduler state of a process that has just been started
FreshScheduler == [jobs |-> {}, scheduled_jobs |-> <<>>, raised |-> FALSE]
CurrentScheduler ==
    [jobs |-> jobs, scheduled_jobs |-> scheduled_jobs, raised |-> FALSE]

\* the process is started again on the same database file: every worker's
\* handler is gone, the module body runs init_db and restore_jobs_from_db
Restart ==
    LET S == restore_jobs_from_db(FreshScheduler, db)
    IN  /\ pc' = [t \in Threads |-> "idle"]
        /\ loc' = [t \in Threads |-> Loc0]
        /\ jobs' = S.jobs
        /\ scheduled_jobs' = S.scheduled_jobs
        /\ proc' = IF S.raised THEN "crashed" ELSE "running"
        /\ sent' = Sent0
        /\ db_lock' = 0
        /\ UNCHANGED <<db, clock>>

(***************************************************************************)
(* Reminder handlers: the rem_toggle / time_ branches of on_callback and   *)
(* on_text, each a whole handler                                           *)
(***************************************************************************)
Truthy(field) == field # NULL /\ field[1] # <<>>

\* R is [db, S, call, text]: the store, the scheduler, the last
\* schedule_user_reminder call made and the text passed to safe_send,
\* after the handler
TxtRemOff == "reminders_off"
TxtRemChoose == "reminders_on_choose_time"
TxtRemOn == "reminders_on"
TxtTimeSet == "time_set"
TxtWriteTime == "write_time"
TxtMenu == "menu"
TxtBadFormat == "bad_format"
TxtChoose == "choose_action"
TxtSummary == "summary"
TxtDetails == "details"
TxtRefresh == "refresh"
TxtTrend == "trend"
TxtSubjPage == "choose_subject"
TxtSubjFew == "subject_needs_two"
TxtSubj == "subject_trend"
TxtReminders == "reminders"
TrendLimit == 10

\* the handler calls schedule_user_reminder, then safe_send(text), then
\* bot.answer_callback_query; an exception of the first ends the handler
\* before the other two
Scheduled(d, S, chat_id, hhmm, text) ==
    LET S1 == schedule_user_reminder(S, chat_id, hhmm)
    IN  [db |-> d, S |-> S1,
         call |-> Some([chat_id |-> chat_id, hhmm |-> hhmm]),
         text |-> IF S1.raised THEN NULL ELSE Some(text),
         acks |-> IF S1.raised THEN 0 ELSE 1]

\* the averages dict of the users row, empty without one
get_last_averages(d, chat_id) ==
    LET js == get_user_row(d, chat_id).last_averages_json
    IN  IF js = NULL THEN <<>> ELSE json_loads(js[1])

get_last_overall(d, chat_id) == get_user_row(d, chat_id).last_overall

\* call.data.split(":", 1)[1]
AfterColon(data) ==
    SubSeq(data, FindFirst(data, <<":">>) + 1, Len(data))

\* the points of the subject in the history: one per snapshot whose
\* averages hold the subject
SubjectPoints(hist, subject) ==
    SelectSeq(hist, LAMBDA h :
        \E i \in 1..Len(h.averages) : h.averages[i][1] = subject)

\* on_callback for every token but "undo"; the branches are tried in the
\* order of the source.  R.acks counts the calls of answer_callback_query.
on_callback(d, S, chat_id, data) ==
    LET d0 == ensure_user(d, chat_id)
        row == get_user_row(d0, chat_id)
        quiet == [db |-> d0, S |-> S, call |-> NULL, text |-> NULL,
                  acks |-> 1]
        averages == get_last_averages(d0, chat_id)
        hist == get_history(d0, chat_id, TrendLimit)
    IN  IF data = CbSummary
        THEN IF get_last_overall(d0, chat_id) = NULL \/ averages = <<>>
             THEN quiet ELSE [quiet EXCEPT !.text = Some(TxtSummary)]
        ELSE IF data = CbDetails
        THEN IF averages = <<>>
             THEN quiet ELSE [quiet EXCEPT !.text = Some(TxtDetails)]
        ELSE IF data = CbRefresh
        THEN [quiet EXCEPT !.text = Some(TxtRefresh)]
        ELSE IF data = CbTrend
        THEN IF Len(hist) < 2
             THEN quiet ELSE [quiet EXCEPT !.text = Some(TxtTrend)]
        ELSE IF StartsWith(data, SubjPagePrefix)
        THEN IF averages = <<>> THEN quiet
             ELSE IF ParseInt(AfterColon(data)) = NULL
                  THEN [quiet EXCEPT !.acks = 0]
                  ELSE [quiet EXCEPT !.text = Some(TxtSubjPage)]
        ELSE IF StartsWith(data, SubjPrefix)
        THEN IF Len(hist) < 2 THEN quiet
             ELSE IF Len(SubjectPoints(hist, AfterColon(data))) < 2
                  THEN [quiet EXCEPT !.text = Some(TxtSubjFew)]
                  ELSE [quiet EXCEPT !.text = Some(TxtSubj)]
        ELSE IF data = CbReminders
        THEN [quiet EXCEPT !.text = Some(TxtReminders)]
        ELSE IF data = CbRemToggle
        THEN LET enabled == row.reminder_enabled = 0
                 d1 == set_user_fields(d0, chat_id,
                          [reminder_enabled |-> IF enabled THEN 1 ELSE 0])
                 row2 == get_user_row(d1, chat_id)
             IN  IF ~enabled
                 THEN [db |-> d1, S |-> unschedule_user_reminder(S, chat_id),
                       call |-> NULL, text |-> Some(TxtRemOff), acks |-> 1]
                 ELSE IF ~Truthy(row2.reminder_time)
                      THEN [db |-> d1, S |-> S, call |-> NULL,
                            text |-> Some(TxtRemChoose), acks |-> 1]
                      ELSE Scheduled(d1, S, chat_id, row2.reminder_time[1],
                                     TxtRemOn)
        ELSE IF StartsWith(data, TimePrefix)
        THEN LET hhmm == RemoveAll(data, TimePrefix)
                 d1 == set_user_fields(d0, chat_id,
                          [reminder_time |-> Some(hhmm)])
                 row2 == get_user_row(d1, chat_id)
             IN  IF row2.reminder_enabled # 0
                 THEN Scheduled(d1, S, chat_id, hhmm, TxtTimeSet)
                 ELSE [db |-> d1, S |-> S, call |-> NULL,
                       text |-> Some(TxtTimeSet), acks |-> 1]
        ELSE IF data = CbTimeCustom
        THEN [quiet EXCEPT
                 !.db = set_user_fields(d0, chat_id, [awaiting_time |-> 1]),
                 !.text = Some(TxtWriteTime)]
        ELSE IF data = CbBack
        THEN [quiet EXCEPT !.text = Some(TxtMenu)]
        ELSE quiet

Pad2(n) == IF n < 10 THEN <<"0">> \o NatStr(n) ELSE NatStr(n)

\* the HH:MM text on_text stores, NULL when the input is rejected
CustomTime(text) ==
    LET parts == Split(Strip(text), ":")
    IN  IF Len(parts) # 2 THEN NULL
        ELSE LET hh_i == ParseInt(parts[1])
                 mm_i == ParseInt(parts[2])
             IN  IF hh_i = NULL \/ mm_i = NULL THEN NULL
                 ELSE IF ~(0 <= hh_i[1] /\ hh_i[1] <= 23
                           /\ 0 <= mm_i[1] /\ mm_i[1] <= 59)
                      THEN NULL
                      ELSE Some(Pad2(hh_i[1]) \o <<":">> \o Pad2(mm_i[1]))

on_text(d, S, chat_id, text) ==
    LET d0 == ensure_user(d, chat_id)
        row == get_user_row(d0, chat_id)
        hhmm == CustomTime(text)
    IN  IF row.awaiting_time = 0
        THEN [db |-> d0, S |-> S, call |-> NULL, text |-> Some(TxtChoose)]
        ELSE IF hhmm = NULL
        THEN [db |-> set_user_fields(d0, chat_id, [awaiting_time |-> 0]),
              S |-> S, call |-> NULL, text |-> Some(TxtBadFormat)]
        ELSE LET d1 == set_user_fields(d0, chat_id,
                          [awaiting_time |-> 0, reminder_time |-> hhmm])
             IN  IF get_user_row(d1, chat_id).reminder_enabled # 0
                 THEN Scheduled(d1, S, chat_id, hhmm[1], TxtTimeSet)
                 ELSE [db |-> d1, S |-> S, call |-> NULL,
                       text |-> Some(TxtTimeSet)]

Texts ==
    {<<"1", "8", ":", "3", "0">>, <<"7", ":", "5">>,
     <<"2", "5", ":", "0", "0">>, <<"a", "b", "c">>}

\* the state after a reminder handler of chat_id, run by worker t from
\* beginning to end, whose result is R
Handled(R, event, t, chat_id) ==
    /\ pc[t] = "idle"
    /\ db' = R.db
    /\ jobs' = R.S.jobs
    /\ scheduled_jobs' = R.S.scheduled_jobs
    /\ last_event' = [event |-> event, call |-> R.call]
    /\ IF R.text = NULL THEN Silent ELSE Send(chat_id, R.text[1])
    /\ LockStep(t)
    /\ UNCHANGED <<pc, loc, clock, proc, hpre, obs, streak>>

OnCallback(chat_id, data) ==
    /\ proc = "running"
    /\ Handled(on_callback(db, CurrentScheduler, chat_id, data), "callback",
               SeqThread, chat_id)

OnText(chat_id, text) ==
    /\ proc = "running"
    /\ Handled(on_text(db, CurrentScheduler, chat_id, text), "text",
               SeqThread, chat_id)

(***************************************************************************)
(* Initial state: a fresh database file, every worker idle, the scheduler  *)
(* started empty                                                           *)
(***************************************************************************)
Obs0 ==
    [kind |-> "", user |-> 0, items |-> <<>>, pre |-> InitDb,
     pattern |-> "", after_a |-> InitDb]

Streak0 == [n |-> 0, ids |-> <<>>]

Init ==
    /\ db = InitDb
    /\ pc = [t \in Threads |-> "idle"]
    /\ loc = [t \in Threads |-> Loc0]
    /\ clock = 0
    /\ jobs = {}
    /\ scheduled_jobs = <<>>
    /\ proc = "running"
    /\ sent = Sent0
    /\ db_lock = 0
    /\ hpre = InitDb
    /\ obs = Obs0
    /\ streak = [u \in Users |-> Streak0]
    /\ last_event = [event |-> "start", call |-> NULL]

(***************************************************************************)
(* Observers.  They record what a handler did; no handler reads them.      *)
(***************************************************************************)
Unobserved == UNCHANGED <<hpre, obs, streak, last_event>>

\* why on_document returned before its first store read
Rejection(m) ==
    IF ~EndsWith(Lower(m.file_name), DotXlsx) THEN "ingest_badext"
    ELSE IF ~m.download_ok THEN "ingest_nodownload"
    ELSE "ingest_nogrades"

\* how the handler of thread t ends with its next step; "" when it goes on
StepOutcome(t) ==
    CASE pc[t] = "get_counter" ->
            IF DiffOf(db, loc[t].chat_id, loc[t].items) = NULL
            THEN "ingest_raised" ELSE ""
      [] pc[t] = "save_counter_snapshot" ->
            IF save_counter_snapshot_fails(db, loc[t].snapshot_id,
                                           loc[t].new_counter)
            THEN "ingest_error" ELSE "ingest_ok"
      [] pc[t] = "undo_latest" ->
            IF get_latest_snapshot_id(db, loc[t].chat_id) = NULL
            THEN "undo_nothing" ELSE ""
      [] pc[t] = "undo_clear_counter" -> "undo_empty"
      [] pc[t] = "undo_counter" ->
            IF loc[t].snap = NULL THEN "undo_norestore" ELSE ""
      [] pc[t] = "undo_set_counter" -> "undo_ok"
      [] OTHER -> ""

\* obs after a handler of chat_id that began in store `pre` ended as `kind`;
\* items is the content of the workbook of a successful ingestion.
\* pattern is "A" after a successful ingestion, "AB" after two in a row by
\* one user, "ABU" after an undo that follows them; after_a is the store
\* between the two ingestions.
Observed(kind, chat_id, items, pre) ==
    LET pattern ==
            IF kind = "ingest_ok"
            THEN IF obs.kind = "ingest_ok" /\ obs.user = chat_id
                 THEN "AB" ELSE "A"
            ELSE IF /\ kind \in {"undo_ok", "undo_empty"}
                    /\ obs.pattern = "AB"
                    /\ obs.user = chat_id
                 THEN "ABU" ELSE ""
    IN  [kind |-> kind, user |-> chat_id,
         items |-> IF kind = "ingest_ok" THEN items ELSE <<>>,
         pre |-> pre, pattern |-> pattern,
         after_a |-> IF pattern = "AB" THEN pre
                     ELSE IF pattern = "ABU" THEN obs.after_a
                     ELSE InitDb]

\* observer of the sequential specification
SeqDocBegin(chat_id, m) ==
    /\ obs' = IF Ingestible(m) THEN obs
              ELSE Observed(Rejection(m), chat_id, m.items, db)
    /\ hpre' = IF Ingestible(m) THEN db ELSE db'
    /\ UNCHANGED <<streak, last_event>>

SeqBegin ==
    /\ hpre' = db
    /\ UNCHANGED <<obs, streak, last_event>>

SeqStep(t) ==
    /\ obs' = IF StepOutcome(t) = "" THEN obs
              ELSE Observed(StepOutcome(t), loc[t].chat_id, loc[t].items, hpre)
    /\ hpre' = IF StepOutcome(t) = "" THEN hpre ELSE db'
    /\ UNCHANGED <<streak, last_event>>

SeqRestart(t) ==
    /\ obs' = IF pc[t] = "idle" THEN obs
              ELSE Observed(IF loc[t].handler = "doc"
                            THEN "ingest_killed" ELSE "undo_killed",
                            loc[t].chat_id, loc[t].items, hpre)
    /\ hpre' = db
    /\ UNCHANGED <<streak, last_event>>

\* observer of the retention specification: how many ingestions a user
\* has completed since the user's last undo (counted up to
\* HISTORY_LIMIT + 5) and the ids of the last HISTORY_LIMIT of them
StreakPush(s, id) ==
    [n   |-> IF s.n < HISTORY_LIMIT + 5 THEN s.n + 1 ELSE s.n,
     ids |-> IF Len(s.ids) < HISTORY_LIMIT THEN Append(s.ids, id)
             ELSE Append(Tail(s.ids), id)]

RetDocBegin(m) ==
    /\ hpre' = IF Ingestible(m) THEN db ELSE db'
    /\ UNCHANGED <<obs, streak, last_event>>

RetUndoBegin(chat_id) ==
    /\ hpre' = db
    /\ streak' = [streak EXCEPT ![chat_id] = Streak0]
    /\ UNCHANGED <<obs, last_event>>

RetStep(t) ==
    /\ streak' = IF StepOutcome(t) = "ingest_ok"
                 THEN [streak EXCEPT ![loc[t].chat_id] =
                          StreakPush(@, loc[t].snapshot_id)]
                 ELSE streak
    /\ hpre' = IF StepOutcome(t) = "" THEN hpre ELSE db'
    /\ UNCHANGED <<obs, last_event>>

(***************************************************************************)
(* Spec: the worker threads of TeleBot(threaded=True) interleave; every     *)
(* workbook passes the checks of on_document                               *)
(***************************************************************************)
Worker(t) ==
    \/ \E chat_id \in Users, m \in IngestibleDocuments :
          DocBegin(t, chat_id, m, MaxSeq) /\ Unobserved
    \/ GetCounter(t) /\ Unobserved
    \/ SetCounter(t) /\ Unobserved
    \/ SetUserFields(t) /\ Unobserved
    \/ AddSnapshot(t) /\ Unobserved
    \/ SaveCounterSnapshot(t) /\ Unobserved
    \/ \E chat_id \in Users : UndoBegin(t, chat_id) /\ Unobserved
    \/ UndoLatest(t) /\ Unobserved
    \/ UndoDelete(t) /\ Unobserved
    \/ UndoPrev(t) /\ Unobserved
    \/ UndoClearFields(t) /\ Unobserved
    \/ UndoClearCounter(t) /\ Unobserved
    \/ UndoSnap(t) /\ Unobserved
    \/ UndoCounter(t) /\ Unobserved
    \/ UndoSetFields(t) /\ Unobserved
    \/ UndoSetCounter(t) /\ Unobserved

Next == \E t \in Threads : Worker(t)

Spec == Init /\ [][Next]_vars

(***************************************************************************)
(* SpecSeq: one handler at a time, each run to its end                     *)
(***************************************************************************)
\* on_document, one step per locked block
IngestHandlers(docs, stamps, maxSeq) ==
    \/ \E chat_id \in Users, m \in docs :
          DocBegin(SeqThread, chat_id, m, maxSeq) /\ SeqDocBegin(chat_id, m)
    \/ GetCounter(SeqThread) /\ SeqStep(SeqThread)
    \/ SetCounter(SeqThread) /\ SeqStep(SeqThread)
    \/ SetUserFields(SeqThread) /\ SeqStep(SeqThread)
    \/ AddSnapshotAt(SeqThread, stamps) /\ SeqStep(SeqThread)
    \/ SaveCounterSnapshot(SeqThread) /\ SeqStep(SeqThread)

SeqHandlers(docs, stamps, maxSeq) ==
    \/ IngestHandlers(docs, stamps, maxSeq)
    \/ \E chat_id \in Users : UndoBegin(SeqThread, chat_id) /\ SeqBegin
    \/ UndoLatest(SeqThread) /\ SeqStep(SeqThread)
    \/ UndoDelete(SeqThread) /\ SeqStep(SeqThread)
    \/ UndoPrev(SeqThread) /\ SeqStep(SeqThread)
    \/ UndoClearFields(SeqThread) /\ SeqStep(SeqThread)
    \/ UndoClearCounter(SeqThread) /\ SeqStep(SeqThread)
    \/ UndoSnap(SeqThread) /\ SeqStep(SeqThread)
    \/ UndoCounter(SeqThread) /\ SeqStep(SeqThread)
    \/ UndoSetFields(SeqThread) /\ SeqStep(SeqThread)
    \/ UndoSetCounter(SeqThread) /\ SeqStep(SeqThread)

\* every upload falls in the same minute of the wall clock
SeqNext == SeqHandlers(Documents, {clock}, MaxSeqSeq)

SpecSeq == Init /\ [][SeqNext]_vars

(***************************************************************************)
(* SpecCrash: one handler at a time, and the process may stop and be       *)
(* started again at any point of a handler; every workbook passes the      *)
(* checks of on_document                                                   *)
(***************************************************************************)
CrashNext ==
    \/ SeqHandlers(IngestibleDocuments, clock..MaxClock, MaxSeqCrash)
    \/ Restart /\ SeqRestart(SeqThread)

SpecCrash == Init /\ [][CrashNext]_vars

(***************************************************************************)
(* SpecRet: one handler at a time, long enough to pass the retention       *)
(* bound; every workbook with grades holds the same grades and every       *)
(* upload falls in the same minute of the wall clock                       *)
(***************************************************************************)
MaxSeqRet == HISTORY_LIMIT + 6

RetDocuments == {m \in IngestibleDocuments : m.items = FileA}

RetNext ==
    \/ \E chat_id \in Users, m \in RetDocuments :
          DocBegin(SeqThread, chat_id, m, MaxSeqRet) /\ RetDocBegin(m)
    \/ GetCounter(SeqThread) /\ RetStep(SeqThread)
    \/ SetCounter(SeqThread) /\ RetStep(SeqThread)
    \/ SetUserFields(SeqThread) /\ RetStep(SeqThread)
    \/ AddSnapshotAt(SeqThread, {clock}) /\ RetStep(SeqThread)
    \/ SaveCounterSnapshot(SeqThread) /\ RetStep(SeqThread)
    \/ \E chat_id \in Users :
          UndoBegin(SeqThread, chat_id) /\ RetUndoBegin(chat_id)
    \/ UndoLatest(SeqThread) /\ RetStep(SeqThread)
    \/ UndoDelete(SeqThread) /\ RetStep(SeqThread)
    \/ UndoPrev(SeqThread) /\ RetStep(SeqThread)
    \/ UndoClearFields(SeqThread) /\ RetStep(SeqThread)
    \/ UndoClearCounter(SeqThread) /\ RetStep(SeqThread)
    \/ UndoSnap(SeqThread) /\ RetStep(SeqThread)
    \/ UndoCounter(SeqThread) /\ RetStep(SeqThread)
    \/ UndoSetFields(SeqThread) /\ RetStep(SeqThread)
    \/ UndoSetCounter(SeqThread) /\ RetStep(SeqThread)

SpecRet == Init /\ [][RetNext]_vars

(***************************************************************************)
(* SpecRem: the reminder handlers, one at a time, and process restarts     *)
(***************************************************************************)
RemRestart ==
    /\ Restart
    /\ last_event' = [event |-> "restart", call |-> NULL]
    /\ UNCHANGED <<hpre, obs, streak>>

RemNext ==
    \/ \E chat_id \in Users, data \in RemindersKb : OnCallback(chat_id, data)
    \/ \E chat_id \in Users, text \in Texts : OnText(chat_id, text)
    \/ RemRestart

SpecRem == Init /\ [][RemNext]_vars

(***************************************************************************)
(* SpecUndo: ingestions and undos, one handler at a time, among presses of *)
(* the reminder buttons                                                    *)
(***************************************************************************)
UndoCallbacks == {CbRemToggle, TimePrefix \o T0800}

\* every workbook is well-formed and holds the same grades, and every
\* upload falls in the same minute of the wall clock
UndoDocuments ==
    {m \in Documents :
        m.file_name = NameXlsx /\ m.download_ok /\ m.items = FileA}

UndoNext ==
    \/ SeqHandlers(UndoDocuments, {clock}, MaxSeq)
    \/ \E chat_id \in Users, data \in UndoCallbacks :
          OnCallback(chat_id, data)

SpecUndo == Init /\ [][UndoNext]_vars

(***************************************************************************)
(* SpecLock: the worker threads interleave, each seen entering the lock    *)
(* before its store call, and the admin exports the database file          *)
(***************************************************************************)
LockNext ==
    \E t \in Threads :
        \/ Worker(t)
        \/ Acquire(t) /\ Unobserved
        \/ \E chat_id \in Users : ExportDbBegin(t, chat_id) /\ Unobserved
        \/ ExportDbRead(t) /\ Unobserved

SpecLock == Init /\ [][LockNext]_vars

(***************************************************************************)
(* SpecSend: safe_send called with every tries argument against every      *)
(* behaviour of the network, and the reminder job of the scheduler         *)
(***************************************************************************)
TxtReminder == "reminder"

\* safe_send(chat_id, text, tries=tries) meets the network behaviour net
SafeSendCall(chat_id, text, tries, net) ==
    /\ proc = "running"
    /\ sent' = safe_send(chat_id, text, tries, net)
    /\ last_event' = [event |-> "send", call |-> Some(net)]
    /\ UNCHANGED <<db, pc, loc, clock, jobs, scheduled_jobs, proc, db_lock,
                   hpre, obs, streak>>

\* the scheduler fires the job of chat_id: reminder_job(chat_id)
ReminderJob(chat_id) ==
    /\ proc = "running"
    /\ \E j \in jobs : j.id = JobId(chat_id)
    /\ \E net \in [1..DefaultTries -> Outcomes] :
          /\ sent' = safe_send(chat_id, TxtReminder, DefaultTries, net)
          /\ last_event' = [event |-> "send", call |-> Some(net)]
    /\ UNCHANGED <<db, pc, loc, clock, jobs, scheduled_jobs, proc, db_lock,
                   hpre, obs, streak>>

SendNext ==
    \/ \E chat_id \in Users, text \in {TxtAdminOnly, TxtChoose},
          tries \in 0..MaxTries :
          \E net \in [1..tries -> Outcomes] :
              SafeSendCall(chat_id, text, tries, net)
    \/ \E chat_id \in Users : ReminderJob(chat_id)
    \/ \E chat_id \in Users, data \in UndoCallbacks :
          OnCallback(chat_id, data)

SpecSend == Init /\ [][SendNext]_vars

(***************************************************************************)
(* Views used by the properties                                            *)
(***************************************************************************)
\* no handler for chat_id is in progress on any worker
Quiescent(chat_id) == \A t \in Threads : loc[t].chat_id # chat_id

\* the user's current-state cache
Cache(d, chat_id) ==
    [last_overall       |-> get_user_row(d, chat_id).last_overall,
     last_averages_json |-> get_user_row(d, chat_id).last_averages_json,
     counter            |-> get_counter(d, chat_id)]

\* the user's snapshot rows and their counter rows
History(d, chat_id) ==
    [snapshots |-> {s \in d.snapshots : s.chat_id = chat_id},
     counters  |-> {r \in d.counter_snapshots :
                       r[1] \in SnapshotIds(d, chat_id)}]

\* the cache a store holding the newest snapshot of the user calls for
NewestCache(d, chat_id) ==
    LET last == get_latest_snapshot_id(d, chat_id)
    IN  IF last = NULL
        THEN [last_overall |-> NULL, last_averages_json |-> NULL,
              counter |-> EmptyCounter]
        ELSE LET snap == CHOOSE s \in d.snapshots : s.id = last[1]
             IN  [last_overall       |-> Some(snap.overall),
                  last_averages_json |-> Some(snap.averages_json),
                  counter            |-> get_counter_by_snapshot(d, last[1])]

Count(c, k) == IF k \in DOMAIN c THEN c[k] ELSE 0

UndoKinds == {"undo_nothing", "undo_empty", "undo_ok", "undo_norestore"}

(***************************************************************************)
(* Properties                                                              *)
(***************************************************************************)
\* C1: whenever no ingestion or undo of a user is in progress, the user's
\* cache (last_overall, last_averages_json, grade_counter) equals the
\* content of the user's newest snapshot, and is empty without one.
C1_CacheMatchesNewest ==
    \A u \in Users : Quiescent(u) => Cache(db, u) = NewestCache(db, u)

\* C2: an ingestion that has ended, by running to its end or by the process
\* stopping between two of its store writes, has committed either all of
\* its writes (a new snapshot row, that snapshot's counter rows equal to
\* grade_counter, and the cache fields equal to the snapshot's) or none.
C2_IngestAllOrNothing ==
    (pc[SeqThread] = "idle" /\ obs.kind \in {"ingest_ok", "ingest_killed"}) =>
        LET u == obs.user
            before == ensure_user(obs.pre, u)
            made == {s \in db.snapshots : s.id = before.seq + 1 /\ s.chat_id = u}
        IN  \/ db = before
            \/ /\ made # {}
               /\ Cache(db, u) = NewestCache(db, u)

\* C3: two ingestions of one chat never overlap: no two workers are both
\* between the first store read (get_counter) and the last store write
\* (save_counter_snapshot) of on_document for the same chat_id.
InStoreSection(t) ==
    /\ loc[t].handler = "doc"
    /\ pc[t] \in {"set_counter", "set_user_fields", "add_snapshot",
                  "save_counter_snapshot"}

C3_IngestionsDoNotInterleave ==
    \A t1, t2 \in Threads :
        (t1 # t2 /\ loc[t1].chat_id = loc[t2].chat_id)
            => ~(InStoreSection(t1) /\ InStoreSection(t2))

\* C4 as claimed: after ingestions A and B of one user and then an undo,
\* the user's cache and snapshot history equal those right after A.
C4_UndoRoundTripExact ==
    (pc[SeqThread] = "idle" /\ obs.pattern = "ABU") =>
        /\ Cache(db, obs.user) = Cache(obs.after_a, obs.user)
        /\ History(db, obs.user) = History(obs.after_a, obs.user)

\* the oldest snapshot of the user, when the user holds HISTORY_LIMIT of them
Evicted(d, chat_id) ==
    LET S == SnapshotIds(d, chat_id)
    IN  IF Cardinality(S) < HISTORY_LIMIT THEN {}
        ELSE {CHOOSE i \in S : \A j \in S : i <= j}

\* C4 amended: after ingestions A and B of one user and then an undo, the
\* user's cache equals the cache right after A, and the snapshot history
\* equals the history right after A less its oldest snapshot when that
\* history already held HISTORY_LIMIT snapshots.
C4_UndoRoundTrip ==
    (pc[SeqThread] = "idle" /\ obs.pattern = "ABU") =>
        LET u == obs.user
            gone == Evicted(obs.after_a, u)
            was == History(obs.after_a, u)
        IN  /\ Cache(db, u) = Cache(obs.after_a, u)
            /\ History(db, u) =
                  [snapshots |-> {s \in was.snapshots : s.id \notin gone},
                   counters  |-> {r \in was.counters : r[1] \notin gone}]

\* an undo has followed two ingestions, the first of which filled the history
C4_Witness ==
    /\ pc[SeqThread] = "idle"
    /\ obs.pattern = "ABU"
    /\ Cardinality(SnapshotIds(obs.after_a, obs.user)) = HISTORY_LIMIT
    /\ Cache(db, obs.user).counter # EmptyCounter

\* C5: an undo of a user holding exactly one snapshot deletes it and leaves
\* last_overall and last_averages_json NULL, no grade_counter row, no
\* snapshot and no counter_snapshots row of that user.
C5_UndoToEmpty ==
    (/\ pc[SeqThread] = "idle"
     /\ obs.kind \in UndoKinds
     /\ Cardinality(SnapshotIds(obs.pre, obs.user)) = 1) =>
        /\ obs.kind = "undo_empty"
        /\ get_user_row(db, obs.user).last_overall = NULL
        /\ get_user_row(db, obs.user).last_averages_json = NULL
        /\ CounterRows(db, obs.user) = {}
        /\ SnapshotIds(db, obs.user) = {}
        /\ {r \in db.counter_snapshots :
               r[1] \in SnapshotIds(obs.pre, obs.user)} = {}

\* an undo has emptied the history of a user whose only snapshot had counter
\* rows and whose cache was set
C5_Witness ==
    /\ pc[SeqThread] = "idle"
    /\ obs.kind = "undo_empty"
    /\ Cardinality(SnapshotIds(obs.pre, obs.user)) = 1
    /\ History(obs.pre, obs.user).counters # {}
    /\ get_user_row(obs.pre, obs.user).last_overall # NULL

\* the undo branch of on_callback is running, or starts or ends in this step
UndoRunning ==
    loc[SeqThread].handler = "undo" \/ loc'[SeqThread].handler = "undo"

\* C6: an undo of a user holding no snapshot answers "nothing to undo" and
\* leaves snapshots, counter_snapshots, grade_counter and every users row
\* as they were, but for the default users row that ensure_user inserts for
\* a chat seen for the first time; no step of it changes the scheduler's
\* triggers or scheduled_jobs.
C6_UndoNothing ==
    /\ []((/\ pc[SeqThread] = "idle"
           /\ obs.kind \in UndoKinds
           /\ SnapshotIds(obs.pre, obs.user) = {}) =>
              /\ obs.kind = "undo_nothing"
              /\ hpre = ensure_user(obs.pre, obs.user))
    /\ [][UndoRunning => UNCHANGED <<jobs, scheduled_jobs>>]_vars

\* an undo found nothing for its user while another user has snapshots and
\* the user has a reminder scheduled
C6_Witness ==
    /\ pc[SeqThread] = "idle"
    /\ obs.kind = "undo_nothing"
    /\ hpre = db
    /\ db.snapshots # {}
    /\ JobId(obs.user) \in {j.id : j \in jobs}

\* C7: a user never holds more than HISTORY_LIMIT snapshots; after
\* HISTORY_LIMIT + 5 successful ingestions in a row the user holds exactly
\* HISTORY_LIMIT snapshots, those of the last HISTORY_LIMIT ingestions; and
\* an ingestion of one user leaves the snapshots and counter snapshots of
\* every other user as they were.
C7_RetentionBound ==
    /\ \A u \in Users : Cardinality(SnapshotIds(db, u)) <= HISTORY_LIMIT
    /\ \A u \in Users :
          (Quiescent(u) /\ streak[u].n = HISTORY_LIMIT + 5) =>
              /\ SnapshotIds(db, u) =
                    {streak[u].ids[i] : i \in DOMAIN streak[u].ids}
              /\ Cardinality(SnapshotIds(db, u)) = HISTORY_LIMIT
    /\ \A u \in Users :
          (loc[SeqThread].handler = "doc" /\ loc[SeqThread].chat_id # u) =>
              History(db, u) = History(hpre, u)

\* a user has made HISTORY_LIMIT + 5 ingestions in a row and the other
\* user holds a snapshot
C7_Witness ==
    \E u, v \in Users :
        /\ u # v
        /\ pc[SeqThread] = "idle"
        /\ streak[u].n = HISTORY_LIMIT + 5
        /\ SnapshotIds(db, v) # {}

\* C8: the stored count of every key is non-negative and, from one
\* successful ingestion of a user to the user's next with no undo between,
\* never decreases.
C8_CountsNeverDecrease ==
    /\ \A r \in db.grade_counter : r[3] >= 0
    /\ (pc[SeqThread] = "idle" /\ obs.pattern = "AB") =>
          LET old == get_counter(obs.after_a, obs.user)
              new == get_counter(db, obs.user)
          IN  \A k \in DOMAIN old : Count(new, k) >= old[k]

\* C9: the scheduler never holds two triggers of one user, and after a
\* handler has called schedule_user_reminder(chat_id, hhmm) it holds
\* exactly one trigger of that user, at the hour and minute of hhmm.
TriggersOf(chat_id) == {j \in jobs : j.id = JobId(chat_id)}

C9_ExactlyOneTrigger ==
    /\ \A u \in Users : Cardinality(TriggersOf(u)) <= 1
    /\ last_event.call # NULL =>
          LET chat_id == last_event.call[1].chat_id
              hhmm == last_event.call[1].hhmm
          IN  /\ Cardinality(TriggersOf(chat_id)) = 1
              /\ \A j \in TriggersOf(chat_id) :
                    Some(<<j.hour, j.minute>>) = CronFields(hhmm)

\* the user has reminders enabled and a reminder_time in the store
ReminderOn(chat_id) ==
    /\ chat_id \in DOMAIN db.users
    /\ db.users[chat_id].reminder_enabled = 1
    /\ db.users[chat_id].reminder_time # NULL

\* C10: a restart of the process completes, and after it the scheduler
\* holds exactly one trigger, at the persisted reminder_time, for every
\* user with reminder_enabled = 1 and a reminder_time, and no other
\* trigger.
C10_RestoreAfterRestart ==
    last_event.event = "restart" =>
        /\ proc = "running"
        /\ \A j \in jobs : \E u \in Users : j.id = JobId(u)
        /\ \A u \in Users :
              IF ReminderOn(u)
              THEN /\ Cardinality(TriggersOf(u)) = 1
                   /\ \A j \in TriggersOf(u) :
                         Some(<<j.hour, j.minute>>) =
                             CronFields(db.users[u].reminder_time[1])
              ELSE TriggersOf(u) = {}

\* a time of day written HH:MM with 00 <= HH <= 23 and 00 <= MM <= 59
WellFormedTime(hhmm) ==
    /\ Len(hhmm) = 5
    /\ hhmm[3] = ":"
    /\ \A i \in {1, 2, 4, 5} : IsDigit(hhmm[i])
    /\ DigitsValue(SubSeq(hhmm, 1, 2)) \in 0..23
    /\ DigitsValue(SubSeq(hhmm, 4, 5)) \in 0..59

\* C11: the reminder_time of every users row is NULL or a well-formed
\* HH:MM, whatever buttons of the reminders keyboard are pressed and
\* whatever texts are sent.
C11_ReminderTimeWellFormed ==
    \A u \in DOMAIN db.users :
        \/ db.users[u].reminder_time = NULL
        \/ WellFormedTime(db.users[u].reminder_time[1])

\* the outcomes of on_document that end it before its first store read
RejectionKinds == {"ingest_badext", "ingest_nodownload", "ingest_nogrades"}

\* the text on_document passes to safe_send on each of them
RejectionText(kind) ==
    CASE kind = "ingest_badext" -> TxtNeedXlsx
      [] kind = "ingest_nodownload" -> TxtNoDownload
      [] kind = "ingest_nogrades" -> TxtNoGrades

\* on_document runs from its beginning to a return in this step
RejectingStep ==
    /\ pc[SeqThread] = "idle"
    /\ pc'[SeqThread] = "idle"
    /\ db'.seq = db.seq

\* C12: an on_document call that rejects the file extension, fails to
\* download, or finds no grades leaves the snapshots, the counter
\* snapshots, grade_counter, last_overall and last_averages_json of every
\* user as they were, and calls safe_send for the chat with the error text
\* of that failure, which makes at least one send attempt.
C12_FailedIngestionWritesNothing ==
    [][RejectingStep =>
          /\ obs'.kind \in RejectionKinds
          /\ \A u \in Users :
                /\ History(db', u) = History(db, u)
                /\ Cache(db', u) = Cache(db, u)
          /\ db'.snapshots = db.snapshots
          /\ db'.counter_snapshots = db.counter_snapshots
          /\ db'.grade_counter = db.grade_counter
          /\ sent'.chat_id = obs'.user
          /\ sent'.text = RejectionText(obs'.kind)
          /\ sent'.attempts >= 1]_vars

\* a download has failed for a user who holds a snapshot, and every send
\* attempt of the error message has failed too
C12_Witness ==
    /\ pc[SeqThread] = "idle"
    /\ obs.kind = "ingest_nodownload"
    /\ SnapshotIds(db, obs.user) # {}
    /\ sent.text = TxtNoDownload
    /\ ~sent.delivered

\* worker t is executing a statement against the database or reading it
InDatabase(t) == db_lock = t \/ pc[t] = "export_db_read"

\* C13: at most one thread at a time executes a statement against the
\* database or reads it, and a thread that does holds db_lock.
C13_SingleSerializationPoint ==
    /\ Cardinality({t \in Threads : InDatabase(t)}) <= 1
    /\ \A t \in Threads : InDatabase(t) => db_lock = t

\* the attempts of the last safe_send call on which the network answered
Successes ==
    {k \in 1..sent.tries : last_event.call[1][k] = "ok"}

\* C14: safe_send makes at most `tries` send attempts; when an attempt
\* succeeds it returns that result and the number of attempts made is the
\* index of the first success; when all `tries` attempts fail it has made
\* exactly `tries` attempts, has slept once after each, and returns None.
C14_BoundedRetry ==
    last_event.event = "send" =>
        /\ sent.attempts <= sent.tries
        /\ Successes # {} =>
              /\ sent.delivered
              /\ sent.attempts \in Successes
              /\ \A k \in Successes : sent.attempts <= k
        /\ Successes = {} =>
              /\ ~sent.delivered
              /\ sent.attempts = sent.tries
        /\ Len(sent.slept) = sent.attempts - (IF sent.delivered THEN 1 ELSE 0)

\* the reminder job has made three failed attempts and given up
C14_Witness ==
    /\ last_event.event = "send"
    /\ sent.text = TxtReminder
    /\ sent.attempts = DefaultTries
    /\ ~sent.delivered
    /\ Len(sent.slept) = DefaultTries

(***************************************************************************)
(* SpecDiff: one handler at a time over workbooks that all pass the        *)
(* checks of on_document, one of them with a subject that ends in "|"      *)
(***************************************************************************)
DiffDocuments ==
    [file_name : {NameXlsx}, download_ok : {TRUE},
     items : {FileA, FileB, FileBar}]

DiffNext == SeqHandlers(DiffDocuments, {clock}, MaxSeq)

SpecDiff == Init /\ [][DiffNext]_vars

\* the entries the diff of an ingestion of `items` over the counter `old`
\* is to report: one per (subject, grade) whose count grew
GrownEntries(old, items) ==
    LET new == make_counter(items)
        old_count(k) == IF k \in DOMAIN old THEN old[k] ELSE 0
        grown == {i \in 1..Len(items) :
                     new[CounterKey(items[i][1], items[i][2])]
                         > old_count(CounterKey(items[i][1], items[i][2]))}
    IN  {<<items[i][1], items[i][2],
           new[CounterKey(items[i][1], items[i][2])]
               - old_count(CounterKey(items[i][1], items[i][2]))>> :
            i \in grown}

\* C15: diff_new_grades returns -- it does not raise -- and what it returns
\* holds exactly one entry (subject, grade, new count - old count) for
\* every key of the new counter whose count is greater than in the old
\* counter, no other entry, sorted by subject and then by grade.
C15_DiffNewGrades ==
    /\ obs.kind # "ingest_raised"
    /\ pc[SeqThread] = "set_counter" =>
          LET added == loc[SeqThread].added
              expected == GrownEntries(get_counter(db, loc[SeqThread].chat_id),
                                       loc[SeqThread].items)
          IN  /\ {added[i] : i \in 1..Len(added)} = expected
              /\ Len(added) = Cardinality(expected)
              /\ \A i, j \in 1..Len(added) :
                    i < j => EntryLess(added[i], added[j])

(***************************************************************************)
(* SpecHist: ingestions one at a time, calls of get_history and the trend   *)
(* button.  The handler of the button is one step: it reads only, apart    *)
(* from ensure_user, and no other handler runs beside it.                  *)
(***************************************************************************)
\* ids handed out in the specification of the history
MaxSeqHist == 3
\* largest limit argument of the calls of get_history
MaxLimit == 2

\* hist[-1]["overall"] - hist[-2]["overall"]
TrendDelta(hist) ==
    FracSub(hist[Len(hist)].overall, hist[Len(hist) - 1].overall)

HistoryCall(event, chat_id, limit, text) ==
    LET hist == get_history(db, chat_id, limit) IN
    /\ proc = "running"
    /\ pc[SeqThread] = "idle"
    /\ db' = ensure_user(db, chat_id)
    /\ last_event' =
          [event |-> event,
           call |-> Some([chat_id |-> chat_id, limit |-> limit, hist |-> hist,
                          delta |-> IF event = "trend" /\ Len(hist) >= 2
                                    THEN Some(TrendDelta(hist)) ELSE NULL])]
    /\ IF text = NULL THEN Silent ELSE Send(chat_id, text[1])
    /\ LockStep(SeqThread)
    /\ UNCHANGED <<pc, loc, clock, jobs, scheduled_jobs, proc, hpre, obs,
                   streak>>

GetHistory(chat_id, limit) == HistoryCall("get_history", chat_id, limit, NULL)

\* the branch call.data == "trend" of on_callback; with fewer than two
\* snapshots the answer goes through answer_callback_query, not safe_send
OnTrend(chat_id) ==
    HistoryCall("trend", chat_id, TrendLimit,
                IF Len(get_history(db, chat_id, TrendLimit)) < 2
                THEN NULL ELSE Some(TxtTrend))

HistDocuments == {m \in IngestibleDocuments : m.file_name = NameXlsx}

HistNext ==
    \/ IngestHandlers(HistDocuments, {clock}, MaxSeqHist)
    \/ \E chat_id \in Users, limit \in 0..MaxLimit : GetHistory(chat_id, limit)
    \/ \E chat_id \in Users : OnTrend(chat_id)

SpecHist == Init /\ [][HistNext]_vars

Min(a, b) == IF a < b THEN a ELSE b

\* the step is a call of get_history or a press of the trend button
HistoryStep ==
    \E chat_id \in Users :
        \/ OnTrend(chat_id)
        \/ \E limit \in 0..MaxLimit : GetHistory(chat_id, limit)

\* the snapshot of the user that has exactly k newer snapshots of that user
KthNewest(d, chat_id, k) ==
    CHOOSE s \in d.snapshots :
        /\ s.chat_id = chat_id
        /\ Cardinality({x \in d.snapshots :
                           x.chat_id = chat_id /\ x.id > s.id}) = k

\* C16: a call get_history(user, limit) returns the min(limit, number of
\* snapshots of the user) most recent snapshots of that user and of no other,
\* oldest first, so the last element is the newest snapshot; the delta of
\* the trend is the newest overall minus the second newest.
C16_HistoryNewestLast ==
    [][HistoryStep =>
          LET r == last_event'.call[1]
              n == Len(r.hist)
          IN  /\ n = Min(r.limit, Cardinality(SnapshotIds(db, r.chat_id)))
              /\ \A i \in 1..n :
                    r.hist[i] = HistoryItem(KthNewest(db, r.chat_id, n - i))
              /\ r.delta # NULL =>
                    r.delta[1] =
                       FracSub(KthNewest(db, r.chat_id, 0).overall,
                               KthNewest(db, r.chat_id, 1).overall)
              /\ last_event'.event = "trend" /\ n >= 2 => r.delta # NULL]_vars

\* a call with limit 1 for a user with two snapshots returned the newer one,
\* while the other user holds a snapshot
C16_Witness ==
    /\ last_event.event = "get_history"
    /\ pc[SeqThread] = "idle"
    /\ \E u \in Users :
          LET r == last_event.call[1] IN
          /\ r.chat_id = u /\ r.limit = 1
          /\ Cardinality(SnapshotIds(db, u)) = 2
          /\ \E v \in Users \ {u} : SnapshotIds(db, v) # {}
          /\ r.hist = <<HistoryItem(KthNewest(db, u, 0))>>
          /\ KthNewest(db, u, 0).overall # KthNewest(db, u, 1).overall

\* C17: between reminder handlers a user has a trigger in the scheduler
\* exactly when the users row has reminder_enabled = 1 and a reminder_time,
\* and the trigger fires at the hour and minute of that reminder_time.
C17_TriggerIffEnabled ==
    \A u \in Users :
        /\ TriggersOf(u) # {} <=> ReminderOn(u)
        /\ \A j \in TriggersOf(u) :
              Some(<<j.hour, j.minute>>) =
                  CronFields(db.users[u].reminder_time[1])

(***************************************************************************)
(* SpecRef: the interleaved worker threads, every upload the same workbook  *)
(* in the same minute, with a record of the deletions of snapshots and of  *)
(* the outcome of save_counter_snapshot                                    *)
(***************************************************************************)
RefDocuments == {m \in HistDocuments : m.items = FileA}

WorkerStep(t) ==
    \/ \E chat_id \in Users, m \in RefDocuments :
          DocBegin(t, chat_id, m, MaxSeq)
    \/ GetCounter(t)
    \/ SetCounter(t)
    \/ SetUserFields(t)
    \/ AddSnapshotAt(t, {clock})
    \/ SaveCounterSnapshot(t)
    \/ \E chat_id \in Users : UndoBegin(t, chat_id)
    \/ UndoLatest(t)
    \/ UndoDelete(t)
    \/ UndoPrev(t)
    \/ UndoClearFields(t)
    \/ UndoClearCounter(t)
    \/ UndoSnap(t)
    \/ UndoCounter(t)
    \/ UndoSetFields(t)
    \/ UndoSetCounter(t)

AllSnapshotIds(d) == {s.id : s \in d.snapshots}

\* what the step of worker t did to the snapshots
RefObserved(t) ==
    /\ last_event' =
          IF pc[t] = "save_counter_snapshot"
          THEN [event |-> IF save_counter_snapshot_fails(
                                 db, loc[t].snapshot_id, loc[t].new_counter)
                          THEN "save_failed" ELSE "save_ok",
                call |-> Some({loc[t].snapshot_id})]
          ELSE IF AllSnapshotIds(db) \ AllSnapshotIds(db') # {}
          THEN [event |-> "deleted",
                call |-> Some(AllSnapshotIds(db) \ AllSnapshotIds(db'))]
          ELSE [event |-> "step", call |-> NULL]
    /\ UNCHANGED <<hpre, obs, streak>>

RefNext == \E t \in Threads : WorkerStep(t) /\ RefObserved(t)

SpecRef == Init /\ [][RefNext]_vars

\* every foreign key of the schema points at an existing row
RefIntegrity(d) ==
    /\ \A r \in d.counter_snapshots : r[1] \in AllSnapshotIds(d)
    /\ \A s \in d.snapshots : s.chat_id \in DOMAIN d.users
    /\ \A r \in d.grade_counter : r[1] \in DOMAIN d.users

StoredSnapshot(d, id) ==
    [row |-> SnapshotRow(d, id), counter |-> get_counter_by_snapshot(d, id)]

\* C19: a snapshot that is in the store before and after a step has the
\* same timestamp, overall average, per-subject averages and stored
\* multiset after it as before, and a snapshot whose ingestion is still
\* running already has the multiset of that ingestion stored with it.
C19_SnapshotsImmutable ==
    /\ [](\A t \in Threads :
             (pc[t] = "save_counter_snapshot"
                 /\ loc[t].snapshot_id \in AllSnapshotIds(db))
             => get_counter_by_snapshot(db, loc[t].snapshot_id)
                    = loc[t].new_counter)
    /\ [][\A id \in AllSnapshotIds(db) \cap AllSnapshotIds(db') :
             StoredSnapshot(db', id) = StoredSnapshot(db, id)]_vars

\* the zero-padded HH:MM a text of Texts stands for, NULL when it is no
\* H:M with 0 <= H <= 23 and 0 <= M <= 59
ExpectedTime(text) ==
    CASE text = <<"1", "8", ":", "3", "0">> -> Some(<<"1", "8", ":", "3", "0">>)
      [] text = <<"7", ":", "5">> -> Some(<<"0", "7", ":", "0", "5">>)
      [] OTHER -> NULL

\* C20: a press of the button time_custom sets awaiting_time to 1 and
\* leaves reminder_time and the user's trigger as they were; a text message
\* leaves awaiting_time at 0, and when it arrives with awaiting_time = 1 and
\* is a well-formed H:M it stores the zero-padded HH:MM as reminder_time
\* and, when reminders are enabled, leaves exactly one trigger at that time.
C20_CustomTimeProtocol ==
    /\ [][\A u \in Users :
             OnCallback(u, CbTimeCustom) =>
                /\ get_user_row(db', u).awaiting_time = 1
                /\ get_user_row(db', u).reminder_time
                       = get_user_row(db, u).reminder_time
                /\ {j \in jobs' : j.id = JobId(u)} = TriggersOf(u)]_vars
    /\ [][\A u \in Users, text \in Texts :
             OnText(u, text) =>
                /\ get_user_row(db', u).awaiting_time = 0
                /\ (get_user_row(db, u).awaiting_time = 1
                       /\ ExpectedTime(text) # NULL) =>
                      /\ get_user_row(db', u).reminder_time
                             = ExpectedTime(text)
                      /\ get_user_row(db', u).reminder_enabled = 1 =>
                            \E j \in jobs' :
                               /\ {k \in jobs' : k.id = JobId(u)} = {j}
                               /\ Some(<<j.hour, j.minute>>)
                                      = CronFields(ExpectedTime(text)[1])]_vars

(***************************************************************************)
(* SpecKey: the key of make_counter built for a subject and a grade and    *)
(* read back by parse_counter_key                                          *)
(***************************************************************************)
\* longest subject
MaxSubjLen == 3
\* largest grade, in absolute value
MaxGrade == 10
SubjChars == {"A", "|", "5", "-"}
\* what subject.strip() can be: no blank at either end
Subjects == UNION {[1..n -> SubjChars] : n \in 0..MaxSubjLen}
Grades == (0 - 2)..MaxGrade

\* one call, made in the initial state
KeyCall(subj, grade) ==
    /\ last_event.event = "start"
    /\ last_event' =
          [event |-> "key",
           call |-> Some([subj |-> subj, grade |-> grade,
                          key |-> CounterKey(subj, grade),
                          parsed |-> parse_counter_key(CounterKey(subj, grade)),
                          added |-> diff_new_grades(
                                       EmptyCounter,
                                       make_counter(<<<<subj, grade>>>>))])]
    /\ UNCHANGED <<db, pc, loc, clock, jobs, scheduled_jobs, proc, sent,
                   db_lock, hpre, obs, streak>>

KeyNext == \E subj \in Subjects, grade \in Grades : KeyCall(subj, grade)

SpecKey == Init /\ [][KeyNext]_vars

\* C21: the key built from a subject and a grade parses back to exactly
\* that subject and grade, no other subject and grade give the same key,
\* and the diff over a counter holding the key returns its entry.
C21_KeyRoundTrip ==
    last_event.event = "key" =>
        LET r == last_event.call[1] IN
        /\ r.parsed = Some(<<r.subj, r.grade>>)
        /\ \A s \in Subjects, g \in Grades :
              CounterKey(s, g) = r.key => (s = r.subj /\ g = r.grade)
        /\ r.added = Some(<< <<r.subj, r.grade, 1>> >>)

(***************************************************************************)
(* SpecAck: button presses, one handler at a time, over the stores that    *)
(* ingestions, undos and the reminder buttons reach; every press records   *)
(* how often the handler called bot.answer_callback_query                  *)
(***************************************************************************)
\* callback_data of the buttons of menu_kb, reminders_kb and subjects_kb;
\* "undo" apart: its handler runs step by step; one of the four buttons
\* time_HH:MM, which differ in the time only
AckTokens ==
    {CbSummary, CbDetails, CbRefresh, CbTrend, CbReminders,
     SubjPrefix \o SubjM, SubjPagePrefix \o <<"1">>,
     CbRemToggle, TimePrefix \o T0800, CbTimeCustom, CbBack}

\* a whole on_callback for the token data
AckCallback(chat_id, data) ==
    LET R == on_callback(db, CurrentScheduler, chat_id, data) IN
    /\ proc = "running"
    /\ pc[SeqThread] = "idle"
    /\ db' = R.db
    /\ jobs' = R.S.jobs
    /\ scheduled_jobs' = R.S.scheduled_jobs
    /\ last_event' = [event |-> "callback",
                      call |-> Some([data |-> data, acks |-> R.acks])]
    /\ IF R.text = NULL THEN Silent ELSE Send(chat_id, R.text[1])
    /\ LockStep(SeqThread)
    /\ UNCHANGED <<pc, loc, clock, proc, hpre, obs, streak>>

\* the undo branch ends in four places, each with one call of
\* answer_callback_query (lines 660, 673, 679, 689)
AckObserved(t) ==
    /\ last_event' =
          IF StepOutcome(t) \in {"undo_nothing", "undo_empty",
                                 "undo_norestore", "undo_ok"}
          THEN [event |-> "callback",
                call |-> Some([data |-> CbUndo, acks |-> 1])]
          ELSE [event |-> "step", call |-> NULL]
    /\ UNCHANGED <<hpre, obs, streak>>

AckNext ==
    \/ WorkerStep(SeqThread) /\ AckObserved(SeqThread)
    \/ \E chat_id \in Users, data \in AckTokens : AckCallback(chat_id, data)

SpecAck == Init /\ [][AckNext]_vars

\* C22: a handler of a button press that has ended has called
\* answer_callback_query exactly once.
C22_AcknowledgedOnce ==
    last_event.event = "callback" => last_event.call[1].acks = 1

(***************************************************************************)
(* SpecFair: the lock protocol.  Every function of the store is the list   *)
(* of its statements that matter to db_lock: a call of another function    *)
(* of the store, or a `with db_lock:` block with the calls made inside it  *)
(***************************************************************************)
Call(f) == [kind |-> "call", f |-> f]
With(body) == [kind |-> "with", body |-> body]

\* get_user_row that calls ensure_user inside its locked block
get_user_row_nested == << With(<< Call("ensure_user") >>) >>

\* get_user_row: ensure_user(chat_id), then with db_lock: SELECT
get_user_row_locks == << Call("ensure_user"), With(<<>>) >>

StoreBody(f) ==
    CASE f = "ensure_user" -> << With(<<>>) >>
      [] f = "get_user_row" -> get_user_row_locks
      [] f \in {"set_user_fields", "get_counter", "set_counter",
                "add_snapshot", "get_history"} ->
            << Call("ensure_user"), With(<<>>) >>
      [] f \in {"save_counter_snapshot", "get_latest_snapshot_id",
                "get_snapshot_data", "get_counter_by_snapshot",
                "dump_all_data_to_dict", "restore_jobs_from_db"} ->
            << With(<<>>) >>

\* the store calls of a handler in the order of its longest path
HandlerBody(h) ==
    CASE h = "on_document" ->
            << Call("ensure_user"), Call("get_counter"), Call("set_counter"),
               Call("set_user_fields"), Call("add_snapshot"),
               Call("save_counter_snapshot") >>
      [] h = "undo" ->
            << Call("ensure_user"), Call("get_user_row"),
               Call("get_latest_snapshot_id"), With(<<>>),
               Call("get_latest_snapshot_id"), Call("get_snapshot_data"),
               Call("get_counter_by_snapshot"), Call("set_user_fields"),
               Call("set_counter") >>
      [] h = "on_text" ->
            << Call("ensure_user"), Call("get_user_row"),
               Call("set_user_fields"), Call("get_user_row") >>
      [] h = "trend" ->
            << Call("ensure_user"), Call("get_user_row"),
               Call("get_history"), Call("get_user_row") >>
      [] h = "export_all" -> << Call("dump_all_data_to_dict") >>
      [] h = "restore_jobs_from_db" -> << Call("restore_jobs_from_db") >>

LockHandlers ==
    {"on_document", "undo", "on_text", "trend", "export_all",
     "restore_jobs_from_db"}

\* the acquisitions and releases of db_lock a list of statements makes
RECURSIVE LockEvents(_)
LockEvents(stmts) ==
    IF stmts = <<>> THEN <<>>
    ELSE (IF stmts[1].kind = "call"
          THEN LockEvents(StoreBody(stmts[1].f))
          ELSE <<"acquire">> \o LockEvents(stmts[1].body) \o <<"release">>)
         \o LockEvents(Tail(stmts))

LockIdle ==
    UNCHANGED <<db, clock, jobs, scheduled_jobs, proc, sent, hpre, obs,
                streak, last_event>>

LockBegin(t, h) ==
    /\ pc[t] = "idle"
    /\ pc' = [pc EXCEPT ![t] = "lock_run"]
    /\ loc' = [loc EXCEPT ![t] =
                  [handler |-> h, chat_id |-> 0,
                   events |-> LockEvents(HandlerBody(h))]]
    /\ UNCHANGED db_lock
    /\ LockIdle

\* threading.Lock.acquire: blocks until the lock is free, whoever holds it
LockAcquire(t) ==
    /\ pc[t] = "lock_run"
    /\ Head(loc[t].events) = "acquire"
    /\ db_lock = 0
    /\ db_lock' = t
    /\ loc' = [loc EXCEPT ![t].events = Tail(@)]
    /\ UNCHANGED pc
    /\ LockIdle

\* the end of a with block, reached by its last statement or by an
\* exception; stop: the handler returns or raises after this block
LockRelease(t, stop) ==
    LET rest == IF stop THEN <<>> ELSE Tail(loc[t].events) IN
    /\ pc[t] = "lock_run"
    /\ Head(loc[t].events) = "release"
    /\ db_lock' = 0
    /\ IF rest = <<>> THEN Finish(t)
       ELSE /\ loc' = [loc EXCEPT ![t].events = rest]
            /\ UNCHANGED pc
    /\ LockIdle

FairNext ==
    \E t \in Threads :
        \/ \E h \in LockHandlers : LockBegin(t, h)
        \/ LockAcquire(t)
        \/ \E stop \in BOOLEAN : LockRelease(t, stop)

\* a thread that finds the lock free again and again gets it; a thread in a
\* locked block runs to the end of the block
SpecFair ==
    /\ Init
    /\ [][FairNext]_vars
    /\ \A t \in Threads :
          /\ SF_vars(LockAcquire(t))
          /\ WF_vars(\E stop \in BOOLEAN : LockRelease(t, stop))

Requests(t) == pc[t] = "lock_run" /\ Head(loc[t].events) = "acquire"

C24_MapMirrorsScheduler ==
    \A u \in Users : u \in DOMAIN scheduled_jobs <=> TriggersOf(u) # {}
====
